---- MODULE Spec2Model ----
(***************************************************************************)
(* Model of the TIFF utilities and the transformation example:             *)
(*   Data-ingest/fix_tiff_predictor.py      (Repairer)                     *)
(*   Data-ingest/check_tiff_compression.py  (Inspector)                    *)
(*   Data-ingest/transformation-examples/transformation-plugin.py          *)
(*                                                                         *)
(* Strings are sequences of one-character strings, so that splitting,      *)
(* joining and suffixing are computed rather than assumed.  Coordinates    *)
(* are exact rationals kept as integer numerators over a fixed             *)
(* denominator.  The raster library (gdal) is the environment: whether an  *)
(* open, a copy, a flush or a read succeeds is chosen nondeterministically *)
(* within what the file system state allows, and how a failure surfaces    *)
(* (None returned, or RuntimeError raised) follows the exception mode the  *)
(* program has set.                                                        *)
(***************************************************************************)
EXTENDS Integers, Sequences, FiniteSets, TLC

VARIABLES
    prog,           \* which script runs: "repair" or "inspect"
    args,           \* parsed command line
    fs,             \* file system: path -> [ok, readable, predictor]
    fs0,            \* the file system when the process started
    useExceptions,  \* gdal exception mode
    pc,             \* position of the process
    status,         \* process exit status, NoStatus while running
    tiff_files,     \* process_directory: the enumerated list
    idx,            \* process_directory: position of the loop in tiff_files
    success_count,  \* process_directory: success_count
    reported,       \* the "Processed x/y" line, <<>> until printed
    input_file,     \* fix_tiff_predictor: input_file
    output_file,    \* fix_tiff_predictor: output_file
    src_ds,         \* handle states: "unset", "null", "open", "released"
    out_ds,
    test_ds,
    ds,             \* check_tiff: ds
    ret,            \* how the last single-file call ended
    created,        \* every CreateCopy call that produced an output
    attempts,       \* directory mode: each call of fix_tiff_predictor and how it ended
    name,           \* ecco_darwin_transformation: name
    source,         \* the dataset behind file_obj: [x, y, data_vars]
    xds,            \* ecco_darwin_transformation: xds
    variables,      \* ecco_darwin_transformation: variables
    vidx,           \* position of the loop in variables
    var_data_netcdf,\* ecco_darwin_transformation: var_data_netcdf
    wrap_input,     \* the dataset first handed to fix_longitude_wrap
    wrap_data,      \* the dataset after the calls made so far
    wrap_first,     \* the dataset the first call returned
    wrap_calls      \* calls of fix_longitude_wrap made so far

\* the Repairer's and the Inspector's own state
rvars == <<args, fs, fs0, useExceptions, status, tiff_files, idx,
           success_count, reported, input_file, output_file, src_ds, out_ds,
           test_ds, ds, created, attempts>>
\* the Transformer's own state
tvars == <<name, source, xds, variables, vidx, var_data_netcdf>>
\* the longitude helper's own state
wvars == <<wrap_input, wrap_data, wrap_first, wrap_calls>>

vars == <<prog, pc, ret, rvars, tvars, wvars>>

-----------------------------------------------------------------------------
(* Bounds *)

\* at most this many files lie in the directory when the process starts
MaxFiles == 2

-----------------------------------------------------------------------------
(* Strings *)

Str_tif == <<".", "t", "i", "f">>
Str_fixed == <<"_", "f", "i", "x", "e", "d">>

\* p.rfind(c), 1-based, 0 when absent
RFind(p, c) ==
    LET hits == {i \in 1..Len(p) : p[i] = c}
    IN  IF hits = {} THEN 0 ELSE CHOOSE i \in hits : \A j \in hits : j <= i

\* os.path.splitext: the extension starts at the last dot of the last
\* component, unless only dots precede it in that component
splitext(p) ==
    LET sepIndex == RFind(p, "/")
        dotIndex == RFind(p, ".")
    IN  IF dotIndex > sepIndex
           /\ \E k \in (sepIndex + 1)..(dotIndex - 1) : p[k] # "."
        THEN <<SubSeq(p, 1, dotIndex - 1), SubSeq(p, dotIndex, Len(p))>>
        ELSE <<p, <<>>>>

\* os.path.join(directory, name)
PathJoin(d, n) == d \o <<"/">> \o n

\* fnmatch for patterns made of literals and "*"
RECURSIVE fnmatch(_, _)
fnmatch(nm, pat) ==
    IF pat = <<>> THEN nm = <<>>
    ELSE IF Head(pat) = "*"
         THEN \/ fnmatch(nm, Tail(pat))
              \/ (nm # <<>> /\ fnmatch(Tail(nm), pat))
         ELSE /\ nm # <<>>
              /\ Head(nm) = Head(pat)
              /\ fnmatch(Tail(nm), Tail(pat))

\* all orders of a finite set
Perms(S) ==
    {s \in [1..Cardinality(S) -> S] : \A i, j \in DOMAIN s : i # j => s[i] # s[j]}

-----------------------------------------------------------------------------
(* The environment: files and the command line *)

None == <<"None">>

Dir == <<"d">>

\* names a directory may hold when the process starts
Names ==
    { <<"a">> \o Str_tif,
      <<"a">> \o Str_fixed \o Str_tif,
      <<"b">> \o Str_tif,
      <<"n", ".", "t", "x", "t">> }

\* an explicit -o path
OutPath == PathJoin(Dir, <<"o">> \o Str_tif)

\* opens: gdal.Open succeeds; reads: band data can be decoded;
\* predictor: the TIFF predictor the file is encoded with
\* (1 none, 2 horizontal differencing)
Files ==
    { [opens |-> TRUE,  reads |-> TRUE,  predictor |-> 1],
      [opens |-> TRUE,  reads |-> TRUE,  predictor |-> 2],
      [opens |-> TRUE,  reads |-> FALSE, predictor |-> 2],
      [opens |-> FALSE, reads |-> FALSE, predictor |-> 1] }

Codecs == {"NONE", "LZW", "DEFLATE", "ZSTD"}

Patterns == { <<"*">> \o Str_tif, <<"*">> }

FileSystems ==
    UNION { [ {PathJoin(Dir, n) : n \in S} -> Files ] :
            S \in {T \in SUBSET Names : Cardinality(T) <= MaxFiles} }

InputPaths == {Dir} \cup {PathJoin(Dir, n) : n \in Names}

\* the -o option belongs to single-file mode and -p to directory mode; the
\* other mode never reads them, so they keep their defaults there
RepairArgs ==
    { a \in [input : InputPaths, output : {None, OutPath}, compression : Codecs,
             directory : BOOLEAN, pattern : Patterns] :
        /\ a.directory => a.output = None
        /\ ~a.directory => a.pattern = <<"*">> \o Str_tif }

InspectArgs == [input : InputPaths]

isdir(f, p) == p = Dir
isfile(f, p) == p \in DOMAIN f

\* glob.glob(os.path.join(directory, pattern)): the entries of the directory
\* whose name matches; a leading "*" does not match a hidden name
glob(f, directory, pattern) ==
    { p \in DOMAIN f :
        LET n == SubSeq(p, Len(directory) + 2, Len(p))
        IN  /\ p = PathJoin(directory, n)
            /\ n # <<>>
            /\ (Head(n) = "." => Head(pattern) = ".")
            /\ fnmatch(n, pattern) }

InitRepair ==
    /\ prog \in {"repair", "inspect"}
    /\ fs \in FileSystems
    /\ fs0 = fs
    /\ args \in (IF prog = "repair" THEN RepairArgs ELSE InspectArgs)
    \* the bindings' default mode; main sets it before any dataset is opened
    /\ useExceptions \in (IF prog = "repair" THEN {FALSE} ELSE BOOLEAN)
    /\ pc = (IF prog = "repair" THEN "main" ELSE "check_tiff")
    /\ status = {}
    /\ tiff_files = <<>>
    /\ idx = 0
    /\ success_count = 0
    /\ reported = <<>>
    /\ input_file = None
    /\ output_file = None
    /\ src_ds = "unset"
    /\ out_ds = "unset"
    /\ test_ds = "unset"
    /\ ds = "unset"
    /\ ret = "none"
    /\ created = {}
    /\ attempts = <<>>
    /\ name = <<>> /\ source = <<>> /\ xds = <<>> /\ variables = <<>>
    /\ vidx = 0 /\ var_data_netcdf = <<>>
    /\ wrap_input = <<>> /\ wrap_data = <<>> /\ wrap_first = <<>>
    /\ wrap_calls = 0

-----------------------------------------------------------------------------
(* Repairer: fix_tiff_predictor.py *)

\* the list handed to CreateCopy, one <<key, value>> per "KEY=VALUE" string
creation_options_differencing(compression) ==
    <<  <<"COMPRESS", compression>>,
        <<"PREDICTOR", IF compression \in {"LZW", "DEFLATE"} THEN "2" ELSE "1">>,
        <<"TILED", "YES">>,
        <<"BLOCKXSIZE", "512">>,
        <<"BLOCKYSIZE", "512">>,
        <<"BIGTIFF", "YES">> >>
    \o (IF compression = "DEFLATE" THEN << <<"ZLEVEL", "6">> >> ELSE <<>>)

creation_options(compression) ==
    <<  <<"COMPRESS", compression>>,
        <<"PREDICTOR", "1">>,
        <<"TILED", "YES">>,
        <<"BLOCKXSIZE", "512">>,
        <<"BLOCKYSIZE", "512">>,
        <<"BIGTIFF", "YES">> >>
    \o (IF compression = "DEFLATE" THEN << <<"ZLEVEL", "6">> >> ELSE <<>>)

\* the value the GTiff driver finds for a key, "" when the key is absent
OptionValue(options, key) ==
    LET hits == {i \in 1..Len(options) : options[i][1] = key}
    IN  IF hits = {} THEN ""
        ELSE options[CHOOSE i \in hits : \A j \in hits : i <= j][2]

\* the predictor the driver encodes with: the PREDICTOR option, 1 by default
PredictorOf(options) ==
    LET v == OptionValue(options, "PREDICTOR")
    IN  IF v = "2" THEN 2 ELSE IF v = "3" THEN 3 ELSE 1

\* output_file defaults to the input with "_fixed" before the extension
DefaultOutput(input) ==
    LET parts == splitext(input)
    IN  parts[1] \o Str_fixed \o parts[2]

CanOpen(f, p) == p \in DOMAIN f /\ f[p].opens

\* f with path p holding file r
WriteFile(f, p, r) ==
    [q \in DOMAIN f \cup {p} |-> IF q = p THEN r ELSE f[q]]

\* lines 135-152: parse, configure gdal, dispatch on the mode
Main ==
    /\ prog = "repair" /\ pc = "main"
    /\ useExceptions' = TRUE
    /\ IF args.directory
       THEN IF ~isdir(fs, args.input)
            THEN /\ status' = {1} /\ pc' = "exit"
                 /\ UNCHANGED <<input_file, output_file>>
            ELSE /\ pc' = "process_directory"
                 /\ UNCHANGED <<status, input_file, output_file>>
       ELSE IF ~isfile(fs, args.input)
            THEN /\ status' = {1} /\ pc' = "exit"
                 /\ UNCHANGED <<input_file, output_file>>
            ELSE /\ pc' = "fix_tiff_predictor"
                 /\ input_file' = args.input
                 /\ output_file' = args.output
                 /\ UNCHANGED status
    /\ UNCHANGED <<tvars, wvars>>
    /\ UNCHANGED <<prog, args, fs, fs0, tiff_files, idx, success_count, reported,
                   src_ds, out_ds, test_ds, ds, ret, created, attempts>>

\* lines 97-100: enumerate once, in whatever order the directory yields
ProcessDirectoryGlob ==
    /\ pc = "process_directory"
    /\ \E order \in Perms(glob(fs, args.input, args.pattern)) :
          tiff_files' = order
    /\ success_count' = 0
    /\ idx' = 1
    /\ pc' = "loop"
    /\ UNCHANGED <<tvars, wvars>>
    /\ UNCHANGED <<prog, args, fs, fs0, useExceptions, status, reported,
                   input_file, output_file, src_ds, out_ds, test_ds, ds, ret,
                   created, attempts>>

\* lines 101-102 and 106: call the repair on the next file, or report and
\* return to main, which falls off its end
ProcessDirectoryLoop ==
    /\ pc = "loop"
    /\ IF idx <= Len(tiff_files)
       THEN /\ input_file' = tiff_files[idx]
            /\ output_file' = None
            /\ attempts' = Append(attempts, [file |-> tiff_files[idx],
                                              result |-> "pending"])
            /\ pc' = "fix_tiff_predictor"
            /\ UNCHANGED <<reported, status>>
       ELSE /\ reported' = <<success_count, Len(tiff_files)>>
            /\ status' = {0}
            /\ pc' = "exit"
            /\ UNCHANGED <<input_file, output_file, attempts>>
    /\ UNCHANGED <<tvars, wvars>>
    /\ UNCHANGED <<prog, args, fs, fs0, useExceptions, tiff_files, idx,
                   success_count, src_ds, out_ds, test_ds, ds, ret, created>>

\* lines 21-32: default the output path, open the source
FixOpen ==
    /\ pc = "fix_tiff_predictor"
    /\ output_file' = (IF output_file = None THEN DefaultOutput(input_file)
                       ELSE output_file)
    /\ out_ds' = "unset" /\ test_ds' = "unset"
    /\ IF CanOpen(fs, input_file)
       THEN /\ src_ds' = "open" /\ ret' = "none" /\ pc' = "create_copy"
       ELSE IF useExceptions
            THEN /\ src_ds' = "unset" /\ ret' = "raised" /\ pc' = "unwind"
            ELSE /\ src_ds' = "null" /\ ret' = "False" /\ pc' = "return"
    /\ UNCHANGED <<tvars, wvars>>
    /\ UNCHANGED <<prog, args, fs, fs0, useExceptions, status, tiff_files, idx,
                   success_count, reported, input_file, ds, created, attempts>>

\* lines 35-64: build the options and copy; the copy decodes every sample of
\* the source, and what it wrote may or may not open and read back
FixCreateCopy ==
    /\ pc = "create_copy"
    /\ LET options == creation_options(args.compression)
           Partial == [opens |-> FALSE, reads |-> FALSE, predictor |-> 1]
       IN  \E ok \in BOOLEAN, opens \in BOOLEAN, reads \in BOOLEAN,
              partial \in BOOLEAN :
           IF ok
           THEN /\ fs[input_file].reads
                /\ reads => opens
                /\ ~partial
                /\ fs' = WriteFile(fs, output_file,
                                   [opens |-> opens, reads |-> reads,
                                    predictor |-> PredictorOf(options)])
                /\ created' = created \cup
                       {[input |-> input_file, output |-> output_file,
                         options |-> options]}
                /\ out_ds' = "open" /\ pc' = "flush"
                /\ UNCHANGED <<src_ds, ret>>
           ELSE \* nothing is written, or a truncated file is left behind
                /\ ~opens /\ ~reads
                /\ fs' = (IF partial THEN WriteFile(fs, output_file, Partial) ELSE fs)
                /\ UNCHANGED created
                /\ IF useExceptions
                   THEN /\ ret' = "raised" /\ pc' = "unwind"
                        /\ UNCHANGED <<src_ds, out_ds>>
                   ELSE /\ out_ds' = "null" /\ src_ds' = "released"
                        /\ ret' = "False" /\ pc' = "return"
    /\ UNCHANGED <<tvars, wvars>>
    /\ UNCHANGED <<prog, args, fs0, useExceptions, status, tiff_files, idx,
                   success_count, reported, input_file, output_file, test_ds,
                   ds, attempts>>

\* line 67: a failed flush raises in exception mode and is an ignored return
\* value otherwise
FixFlush ==
    /\ pc = "flush"
    /\ \E ok \in BOOLEAN :
          IF ~ok /\ useExceptions
          THEN ret' = "raised" /\ pc' = "unwind"
          ELSE ret' = ret /\ pc' = "cleanup"
    /\ UNCHANGED <<tvars, wvars>>
    /\ UNCHANGED <<prog, args, fs, fs0, useExceptions, status, tiff_files, idx,
                   success_count, reported, input_file, output_file, src_ds,
                   out_ds, test_ds, ds, created, attempts>>

\* lines 70-73
FixCleanup ==
    /\ pc = "cleanup"
    /\ src_ds' = "released" /\ out_ds' = "released"
    /\ pc' = "verify"
    /\ UNCHANGED <<tvars, wvars>>
    /\ UNCHANGED <<prog, args, fs, fs0, useExceptions, status, tiff_files, idx,
                   success_count, reported, input_file, output_file, test_ds,
                   ds, ret, created, attempts>>

\* lines 76-77 and 89-91: re-open the output
FixVerifyOpen ==
    /\ pc = "verify"
    /\ IF CanOpen(fs, output_file)
       THEN /\ test_ds' = "open" /\ pc' = "read" /\ ret' = ret
       ELSE IF useExceptions
            THEN /\ ret' = "raised" /\ pc' = "unwind" /\ test_ds' = test_ds
            ELSE /\ test_ds' = "null" /\ ret' = "False" /\ pc' = "return"
    /\ UNCHANGED <<tvars, wvars>>
    /\ UNCHANGED <<prog, args, fs, fs0, useExceptions, status, tiff_files, idx,
                   success_count, reported, input_file, output_file, src_ds,
                   out_ds, ds, created, attempts>>

\* lines 78-88: read a window of band 1 inside try/except; without exception
\* mode a failed read returns None and nothing is caught
FixVerifyRead ==
    /\ pc = "read"
    /\ test_ds' = "released"
    /\ ret' = (IF fs[output_file].reads \/ ~useExceptions THEN "True" ELSE "False")
    /\ pc' = "return"
    /\ UNCHANGED <<tvars, wvars>>
    /\ UNCHANGED <<prog, args, fs, fs0, useExceptions, status, tiff_files, idx,
                   success_count, reported, input_file, output_file, src_ds,
                   out_ds, ds, created, attempts>>

\* the caller takes the returned value: lines 102-104 in the loop,
\* lines 151-152 in single-file mode
FixReturn ==
    /\ pc = "return"
    /\ IF args.directory
       THEN /\ success_count' = success_count + (IF ret = "True" THEN 1 ELSE 0)
            /\ idx' = idx + 1
            /\ pc' = "loop"
            /\ attempts' = [attempts EXCEPT ![Len(attempts)].result = ret]
            /\ UNCHANGED status
       ELSE /\ status' = (IF ret = "True" THEN {0} ELSE {1})
            /\ pc' = "exit"
            /\ UNCHANGED <<success_count, idx, attempts>>
    /\ UNCHANGED <<tvars, wvars>>
    /\ UNCHANGED <<prog, args, fs, fs0, useExceptions, tiff_files, reported,
                   input_file, output_file, src_ds, out_ds, test_ds, ds, ret,
                   created>>

\* an exception no frame catches: the interpreter prints the traceback and
\* the process ends with status 1
Unwind ==
    /\ pc = "unwind"
    /\ status' = {1}
    /\ pc' = "exit"
    /\ attempts' = (IF attempts = <<>> THEN attempts
                    ELSE [attempts EXCEPT ![Len(attempts)].result = "raised"])
    /\ UNCHANGED <<tvars, wvars>>
    /\ UNCHANGED <<prog, args, fs, fs0, useExceptions, tiff_files, idx,
                   success_count, reported, input_file, output_file, src_ds,
                   out_ds, test_ds, ds, ret, created>>

-----------------------------------------------------------------------------
(* Inspector: check_tiff_compression.py *)

\* lines 13-16
CheckOpen ==
    /\ prog = "inspect" /\ pc = "check_tiff"
    /\ IF CanOpen(fs, args.input)
       THEN /\ ds' = "open" /\ pc' = "report" /\ UNCHANGED <<ret, status>>
       ELSE IF useExceptions
            THEN /\ ret' = "raised" /\ pc' = "unwind" /\ UNCHANGED <<ds, status>>
            ELSE /\ ds' = "null" /\ ret' = "returned"
                 /\ status' = {0} /\ pc' = "exit"
    /\ UNCHANGED <<tvars, wvars>>
    /\ UNCHANGED <<prog, args, fs, fs0, useExceptions, tiff_files, idx,
                   success_count, reported, input_file, output_file, src_ds,
                   out_ds, test_ds, created, attempts>>

\* lines 19-47: print driver, size, bands and metadata (a failing tag read
\* is caught at line 44), release the dataset, fall off the script's end
CheckReport ==
    /\ pc = "report"
    /\ ds' = "released"
    /\ ret' = "returned"
    /\ status' = {0}
    /\ pc' = "exit"
    /\ UNCHANGED <<tvars, wvars>>
    /\ UNCHANGED <<prog, args, fs, fs0, useExceptions, tiff_files, idx,
                   success_count, reported, input_file, output_file, src_ds,
                   out_ds, test_ds, created, attempts>>


-----------------------------------------------------------------------------
(* Transformer: transformation-plugin.py *)

\* bounds of the generated inputs
MaxNameLen == 4
MaxAxis == 2
MaxVars == 4

\* the index ranges of the source grid
LonCells == 1440
LatCells == 721

\* the sentinel written to every output
OutNodata == -9999

NameChars == {"a", "_", " ", ".", "/"}

Str_co2flux_2021_01_nc ==
    <<"c", "o", "2", "f", "l", "u", "x", "_", "2", "0", "2", "1", "_", "0", "1",
      ".", "n", "c">>

\* every short name, and names of the shape the pipeline feeds in
FileNames ==
    UNION {[1..n -> NameChars] : n \in 1..MaxNameLen}
    \cup { Str_co2flux_2021_01_nc,
           <<"r", "/">> \o Str_co2flux_2021_01_nc,
           <<"a", "_", "b", "_", "2", "1", " ", "0", "7", ".", "n", "c">>,
           <<"x", "_", "1", ".", "n", "c">>,
           <<"x", ".", "n", "c">> }

\* an axis is a sequence of [c |-> coordinate, i |-> source column]; the
\* source holds each grid index once
Axes(values) ==
    UNION { { [k \in 1..n |-> [c |-> f[k], i |-> k]] :
                f \in {g \in [1..n -> values] :
                          \A a, b \in 1..n : a # b => g[a] # g[b]} } :
            n \in 1..MaxAxis }

XSamples == {0, 1, LonCells \div 2, LonCells}
YSamples == {0, 1, LatCells \div 2, LatCells}

VarNames == <<"lon_b", "lat_b", "co2", "ch4", "n2o", "sf6", "cfc">>

DataVars == { SubSeq(VarNames, 1, k) : k \in 0..MaxVars }

DefaultGrid == [x |-> << [c |-> 0, i |-> 1] >>, y |-> << [c |-> 0, i |-> 1] >>]

\* names are varied against the variable count on one grid, grids against
\* the variable count under one name
Sources ==
    { <<n, [x |-> DefaultGrid.x, y |-> DefaultGrid.y, data_vars |-> d]>> :
        n \in FileNames, d \in DataVars }
    \cup
    { <<Str_co2flux_2021_01_nc, [x |-> ax, y |-> ay, data_vars |-> d]>> :
        ax \in Axes(XSamples), ay \in Axes(YSamples), d \in DataVars }

\* insert v into a sequence sorted on c, after the entries not above it
RECURSIVE InsertSorted(_, _)
InsertSorted(s, v) ==
    IF s = <<>> THEN <<v>>
    ELSE IF Head(s).c <= v.c THEN <<Head(s)>> \o InsertSorted(Tail(s), v)
    ELSE <<v>> \o s

\* Dataset.sortby(dim): ascending and stable
RECURSIVE sortby(_)
sortby(axis) ==
    IF axis = <<>> THEN <<>>
    ELSE InsertSorted(sortby(SubSeq(axis, 1, Len(axis) - 1)), axis[Len(axis)])

\* line 53, as a numerator over LonCells: ((x / 1440) * 360) - 180
longitude_of(x) == x * 360 - 180 * LonCells
\* line 57, as a numerator over LatCells: ((y / 721) * 180) - 90
latitude_of(y) == y * 180 - 90 * LatCells

\* assign_coords: the same columns under new coordinate values
assign_longitude(axis) ==
    [k \in 1..Len(axis) |-> [axis[k] EXCEPT !.c = longitude_of(axis[k].c)]]
assign_latitude(axis) ==
    [k \in 1..Len(axis) |-> [axis[k] EXCEPT !.c = latitude_of(axis[k].c)]]

\* list(reversed(...)) and the reindex onto it (line 73)
reversed_in_place(axis) == axis

reversed(axis) == [k \in 1..Len(axis) |-> axis[Len(axis) + 1 - k]]

\* name.split("/")[-1]
basename(n) == SubSeq(n, RFind(n, "/") + 1, Len(n))

\* re.split("[_ .]", filename): a token between every two delimiters, empty
\* ones included
RECURSIVE re_split(_)
re_split(s) ==
    LET hits == {i \in 1..Len(s) : s[i] \in {"_", " ", "."}}
    IN  IF hits = {} THEN <<s>>
        ELSE LET i == CHOOSE i \in hits : \A j \in hits : i <= j
             IN  <<SubSeq(s, 1, i - 1)>> \o re_split(SubSeq(s, i + 1, Len(s)))

\* "_".join(elements)
RECURSIVE join(_)
join(elements) ==
    IF elements = <<>> THEN <<>>
    ELSE IF Len(elements) = 1 THEN elements[1]
    ELSE elements[1] \o <<"_">> \o join(Tail(elements))

\* list.pop() and list.pop(-2)
pop(l) == SubSeq(l, 1, Len(l) - 1)
pop_2(l) == SubSeq(l, 1, Len(l) - 2) \o <<l[Len(l)]>>

\* lines 85-91 on a list of at least three elements
cog_filename_keeps_date_token(filename_elements) ==
    LET e1 == pop(filename_elements)
        e2 == [e1 EXCEPT ![Len(e1)] = e1[Len(e1) - 1] \o e1[Len(e1)]]
    IN  join(e2) \o Str_tif

cog_filename(filename_elements) ==
    LET e1 == pop(filename_elements)
        e2 == [e1 EXCEPT ![Len(e1)] = e1[Len(e1) - 1] \o e1[Len(e1)]]
        e3 == pop_2(e2)
    IN  join(e3) \o Str_tif

\* d[k] = v on a dict
SetItem(d, k, v) ==
    [q \in DOMAIN d \cup {k} |-> IF q = k THEN v ELSE d[q]]

EmptyDict == [q \in {} |-> {}]

\* lines 41-61: open, rename the axes, convert and sort both, select the
\* variables after the first two
TransformOpen ==
    /\ prog = "transform" /\ pc = "transform"
    /\ var_data_netcdf' = EmptyDict
    /\ xds' = [longitude |-> sortby(assign_longitude(source.x)),
               latitude |-> sortby(assign_latitude(source.y)),
               data_vars |-> source.data_vars]
    /\ variables' = SubSeq(source.data_vars, 3, Len(source.data_vars))
    /\ vidx' = 1
    /\ pc' = "variables"
    /\ UNCHANGED <<prog, ret, name, source, rvars, wvars>>

\* lines 64-94: one pass of the loop; indexing a list of fewer than two
\* elements at line 87 raises IndexError, which nothing here catches.  An
\* array is its variable, its two axes and its rio attributes; line 76
\* changes cell values only, which are not carried
TransformVariable ==
    /\ pc = "variables"
    /\ vidx <= Len(variables)
    /\ LET filename_elements == re_split(basename(name))
           data == [name |-> variables[vidx],
                    longitude |-> xds.longitude,
                    latitude |-> reversed(xds.latitude),
                    crs |-> "epsg:4326",
                    nodata |-> OutNodata]
       IN  IF Len(filename_elements) < 3
           THEN /\ ret' = "raised" /\ pc' = "exit"
                /\ UNCHANGED <<var_data_netcdf, vidx>>
           ELSE /\ var_data_netcdf' =
                       SetItem(var_data_netcdf, cog_filename(filename_elements), data)
                /\ vidx' = vidx + 1
                /\ UNCHANGED <<ret, pc>>
    /\ UNCHANGED <<prog, name, source, xds, variables, rvars, wvars>>

\* line 96
TransformReturn ==
    /\ pc = "variables"
    /\ vidx > Len(variables)
    /\ ret' = "returned"
    /\ pc' = "exit"
    /\ UNCHANGED <<prog, tvars, rvars, wvars>>

-----------------------------------------------------------------------------
(* fix_longitude_wrap *)

\* a dataset here is its one horizontal dimension: [dim, axis]
WrapSamples == {-180, -90, 0, 179, 180, 270}

WrapInputs ==
    UNION { { [dim |-> d, axis |-> [k \in 1..n |-> [c |-> f[k], i |-> k]]] :
                d \in {"longitude", "lon", "x"}, f \in [1..n -> WrapSamples] } :
            n \in 1..(MaxAxis + 1) }

\* ((lon + 180) % 360) - 180, with Python's floored %
wrap_not_shifted_back(lon) == (lon + 180) % 360

wrap(lon) == ((lon + 180) % 360) - 180

assign_wrapped(axis) ==
    [k \in 1..Len(axis) |-> [axis[k] EXCEPT !.c = wrap(axis[k].c)]]

\* lines 151-160
fix_longitude_wrap(data) ==
    IF data.dim = "longitude"
    THEN [data EXCEPT !.axis = sortby(assign_wrapped(data.axis))]
    ELSE IF data.dim = "lon"
    THEN [data EXCEPT !.axis = sortby(assign_wrapped(data.axis))]
    ELSE data

\* a caller applies the helper to what the previous call returned
FixLongitudeWrap ==
    /\ prog = "lonwrap" /\ pc = "lonwrap"
    /\ wrap_calls < 2
    /\ wrap_data' = fix_longitude_wrap(wrap_data)
    /\ wrap_first' = (IF wrap_calls = 0 THEN fix_longitude_wrap(wrap_data)
                      ELSE wrap_first)
    /\ wrap_calls' = wrap_calls + 1
    /\ UNCHANGED <<prog, pc, ret, wrap_input, rvars, tvars>>

-----------------------------------------------------------------------------
(* The programs *)

IdleRepair ==
    /\ args = <<>> /\ fs = <<>> /\ fs0 = <<>> /\ useExceptions = FALSE
    /\ status = {} /\ tiff_files = <<>> /\ idx = 0 /\ success_count = 0
    /\ reported = <<>> /\ input_file = None /\ output_file = None
    /\ src_ds = "unset" /\ out_ds = "unset" /\ test_ds = "unset"
    /\ ds = "unset" /\ created = {} /\ attempts = <<>>

InitTransform ==
    /\ prog = "transform" /\ pc = "transform" /\ ret = "none"
    /\ \E src \in Sources : name = src[1] /\ source = src[2]
    /\ xds = <<>> /\ variables = <<>> /\ vidx = 0 /\ var_data_netcdf = <<>>
    /\ wrap_input = <<>> /\ wrap_data = <<>> /\ wrap_first = <<>>
    /\ wrap_calls = 0
    /\ IdleRepair

InitWrap ==
    /\ prog = "lonwrap" /\ pc = "lonwrap" /\ ret = "none"
    /\ wrap_input \in WrapInputs
    /\ wrap_data = wrap_input /\ wrap_first = <<>> /\ wrap_calls = 0
    /\ name = <<>> /\ source = <<>> /\ xds = <<>> /\ variables = <<>>
    /\ vidx = 0 /\ var_data_netcdf = <<>>
    /\ IdleRepair

Init == InitRepair \/ InitTransform \/ InitWrap

Next ==
    \/ Main
    \/ ProcessDirectoryGlob
    \/ ProcessDirectoryLoop
    \/ FixOpen
    \/ FixCreateCopy
    \/ FixFlush
    \/ FixCleanup
    \/ FixVerifyOpen
    \/ FixVerifyRead
    \/ FixReturn
    \/ Unwind
    \/ CheckOpen
    \/ CheckReport
    \/ TransformOpen
    \/ TransformVariable
    \/ TransformReturn
    \/ FixLongitudeWrap

Spec == Init /\ [][Next]_vars

-----------------------------------------------------------------------------
(* Properties of the Repairer and the Inspector *)

Range(s) == {s[i] : i \in DOMAIN s}

DirectoryRun == prog = "repair" /\ args.directory /\ isdir(fs0, args.input)
SingleRun == prog = "repair" /\ ~args.directory /\ isfile(fs0, args.input)

\* C1: every output CreateCopy produced was asked for with PREDICTOR=1 and
\* is encoded with predictor 1, whatever the codec and whatever predictor
\* the source was encoded with.
C1_PredictorNone ==
    \A c \in created :
        /\ OptionValue(c.options, "PREDICTOR") = "1"
        /\ OptionValue(c.options, "COMPRESS") = args.compression
        /\ c.output \in DOMAIN fs => fs[c.output].predictor = 1

\* a source encoded with horizontal differencing was copied under a
\* non-default codec
C1_Witness ==
    \E c \in created :
        /\ fs0[c.input].predictor = 2
        /\ args.compression = "ZSTD"
        /\ c.output \in DOMAIN fs

\* C2: when a directory run has ended, every enumerated file was handed to
\* the single-file repair, and if all files that are not corrupt repaired
\* successfully the reported count is N - M out of N.
C2_BatchCompletes ==
    (DirectoryRun /\ pc = "exit") =>
        LET N == Len(tiff_files)
            bad == {i \in 1..N : ~fs0[tiff_files[i]].opens}
        IN  /\ Len(attempts) = N
            /\ \A i \in 1..Len(attempts) : attempts[i].file = tiff_files[i]
            /\ (\A i \in 1..Len(attempts) :
                    i \notin bad => attempts[i].result = "True")
               => reported = <<N - Cardinality(bad), N>>

\* C3: a single-file repair run under main ends by returning True or False;
\* no exception leaves fix_tiff_predictor.
C3_ReturnsSignal ==
    prog = "repair" => ret \in {"none", "True", "False"}

\* C4: when fix_tiff_predictor or check_tiff has exited, by return or by
\* exception, no dataset handle it opened or created is left unreleased.
C4_HandlesReleased ==
    ret # "none" =>
        /\ src_ds # "open"
        /\ out_ds # "open"
        /\ test_ds # "open"
        /\ ds # "open"

\* C5: exit status 0 after a successful single-file repair, 1 after a failed
\* one, 1 when the path is not of the expected kind, and 0 for every
\* directory run over an existing directory.
C5_ExitStatus ==
    (prog = "repair" /\ pc = "exit") =>
        /\ (SingleRun /\ ret = "True") => status = {0}
        /\ (SingleRun /\ ret = "False") => status = {1}
        /\ (~SingleRun /\ ~DirectoryRun) => status = {1}
        /\ DirectoryRun => status = {0}

\* C10: in a directory run no repair writes to a path of the enumerated
\* list.
C10_NoInputOverwritten ==
    DirectoryRun => \A c \in created : c.output \notin Range(tiff_files)

-----------------------------------------------------------------------------
(* Properties of the Transformer *)

Tokens == re_split(basename(name))

Str_co2flux_202101_tif ==
    <<"c", "o", "2", "f", "l", "u", "x", "_", "2", "0", "2", "1", "0", "1">>
    \o Str_tif

Coords(axis) == [k \in 1..Len(axis) |-> axis[k].c]

Ascending(s) == \A k \in 1..(Len(s) - 1) : s[k] <= s[k + 1]
Descending(s) == \A k \in 1..(Len(s) - 1) : s[k] >= s[k + 1]

\* coordinates are numerators over LonCells and LatCells
LonInRange(s) ==
    \A k \in 1..Len(s) : -180 * LonCells <= s[k] /\ s[k] <= 180 * LonCells
LatInRange(s) ==
    \A k \in 1..Len(s) : -90 * LatCells <= s[k] /\ s[k] <= 90 * LatCells

SourceInGrid ==
    /\ \A k \in 1..Len(source.x) : source.x[k].c \in 0..LonCells
    /\ \A k \in 1..Len(source.y) : source.y[k].c \in 0..LatCells

\* C6: for k >= 2 data variables and a filename of at least 3 tokens the
\* returned mapping has k - 2 entries, one holding each selected variable.
C6_OneEntryPerVariable ==
    (prog = "transform" /\ ret = "returned"
        /\ Len(source.data_vars) >= 2 /\ Len(Tokens) >= 3) =>
        /\ Cardinality(DOMAIN var_data_netcdf) = Len(source.data_vars) - 2
        /\ \A i \in 3..Len(source.data_vars) :
               \E key \in DOMAIN var_data_netcdf :
                   var_data_netcdf[key].name = source.data_vars[i]

\* C7: for a filename of tokens t1..tn, n >= 3, every key written is
\* t1..t(n-3) joined by underscores, then (after an underscore when n > 3)
\* t(n-2) followed by t(n-1), then ".tif"; with at least one selected
\* variable that key is in the returned mapping and nothing is raised.
C7_FilenameDerivation ==
    (prog = "transform" /\ Len(Tokens) >= 3) =>
        LET n == Len(Tokens)
            expected == join(SubSeq(Tokens, 1, n - 3))
                        \o (IF n > 3 THEN <<"_">> ELSE <<>>)
                        \o Tokens[n - 2] \o Tokens[n - 1] \o Str_tif
        IN  /\ \A key \in DOMAIN var_data_netcdf : key = expected
            /\ ret # "raised"
            /\ (ret = "returned" /\ variables # <<>>) =>
                   expected \in DOMAIN var_data_netcdf

\* "co2flux_2021_01.nc" came back as "co2flux_202101.tif"
C7_Witness ==
    /\ prog = "transform" /\ ret = "returned"
    /\ name = Str_co2flux_2021_01_nc
    /\ Len(Tokens) > 3
    /\ Str_co2flux_202101_tif \in DOMAIN var_data_netcdf

\* C8 as stated: every returned array has longitude within [-180, 180]
\* ascending and latitude within [-90, 90] ascending.
C8_BothAscending ==
    (prog = "transform" /\ ret = "returned" /\ SourceInGrid) =>
        \A key \in DOMAIN var_data_netcdf :
            LET a == var_data_netcdf[key]
            IN  /\ LonInRange(Coords(a.longitude))
                /\ Ascending(Coords(a.longitude))
                /\ LatInRange(Coords(a.latitude))
                /\ Ascending(Coords(a.latitude))

\* C8 amended: every returned array has longitude within [-180, 180]
\* ascending and latitude within [-90, 90] descending, the order line 73
\* leaves it in.
C8_LatitudeDescending ==
    (prog = "transform" /\ ret = "returned" /\ SourceInGrid) =>
        \A key \in DOMAIN var_data_netcdf :
            LET a == var_data_netcdf[key]
            IN  /\ LonInRange(Coords(a.longitude))
                /\ Ascending(Coords(a.longitude))
                /\ LatInRange(Coords(a.latitude))
                /\ Descending(Coords(a.latitude))
                /\ Len(a.longitude) = Len(source.x)
                /\ Len(a.latitude) = Len(source.y)

\* an array came back whose source held both ends of both index ranges,
\* the longitude indices out of order
C8_Witness ==
    /\ prog = "transform" /\ ret = "returned"
    /\ Coords(source.x) = <<LonCells, 0>>
    /\ Coords(source.y) = <<0, LatCells>>
    /\ \E key \in DOMAIN var_data_netcdf :
           /\ Coords(var_data_netcdf[key].longitude) = <<-180 * LonCells, 180 * LonCells>>
           /\ Coords(var_data_netcdf[key].latitude) = <<90 * LatCells, -90 * LatCells>>

\* C9: on a longitude axis holding values within [-180, 180], ends
\* included, the second application of fix_longitude_wrap leaves the
\* coordinate values, in order, as the first application left them.
C9_WrapIdempotent ==
    (prog = "lonwrap" /\ wrap_calls = 2
        /\ \A k \in 1..Len(wrap_input.axis) : wrap_input.axis[k].c \in -180..180) =>
        Coords(wrap_data.axis) = Coords(wrap_first.axis)

\* the helper ran twice on a "lon" axis holding both ends, and the first
\* run changed it
C9_Witness ==
    /\ prog = "lonwrap" /\ wrap_calls = 2
    /\ wrap_input.dim = "lon"
    /\ \A k \in 1..Len(wrap_input.axis) : wrap_input.axis[k].c \in -180..180
    /\ \E k \in 1..Len(wrap_input.axis) : wrap_input.axis[k].c = 180
    /\ \E k \in 1..Len(wrap_input.axis) : wrap_input.axis[k].c = -180
    /\ Coords(wrap_first.axis) # Coords(wrap_input.axis)

====
